---------------------------- MODULE Spec2Model ----------------------------
(***************************************************************************)
(* Model of src/sentry/static/sentry/app/api.tsx: the Request handle, the  *)
(* pure query translator paramsToQueryArgs and the request Client with its *)
(* registry of active requests, callback wrapping, re-authentication       *)
(* (sudo) replay and promise wrapper.                                       *)
(*                                                                         *)
(* The transport ($.ajax), the sudo modal (openSudo), the redirect         *)
(* (redirectToProject), the telemetry (metric) and the error reporter      *)
(* (Sentry) are collaborators outside this file.  The transport is         *)
(* modelled by what it guarantees to the handlers registered with it: for  *)
(* every issued operation it delivers success or error once and then       *)
(* complete once; which response arrives, and when, is its choice, also    *)
(* after abort() (the abort is best effort).  The modal calls back         *)
(* retryRequest or onClose, once.                                          *)
(***************************************************************************)
EXTENDS Naturals, Sequences, FiniteSets, TLC

(***************************************************************************)
(* Bounds of the model.                                                    *)
(***************************************************************************)
MaxRequests == 2      \* ids handed out by uniqueId() in one behaviour
MaxThrows == 1        \* request() calls whose query cannot be serialized
MaxItemId == 2        \* item ids range over 1..MaxItemId

(***************************************************************************)
(* JavaScript values, tagged by type.                                      *)
(***************************************************************************)
Undefined == [t |-> "undefined"]
Null == [t |-> "null"]
Str(s) == [t |-> "string", v |-> s]
Bool(b) == [t |-> "boolean", v |-> b]
Arr(a) == [t |-> "array", v |-> a]

\* lodash isNil: null or undefined
isNil(x) == x.t \in {"undefined", "null"}

\* lodash isUndefined
isUndefined(x) == x.t = "undefined"

\* JavaScript truthiness of a value used as a condition; an array, also
\* the empty one, is truthy, the empty string is not.
Truthy(x) ==
  CASE x.t = "undefined" -> FALSE
    [] x.t = "null" -> FALSE
    [] x.t = "string" -> x.v # ""
    [] x.t = "boolean" -> x.v
    [] OTHER -> TRUE

(***************************************************************************)
(* paramsToQueryArgs (QueryTranslator).  A JavaScript object is a function *)
(* from the keys it has to their values.                                   *)
(***************************************************************************)
EmptyObject == [k \in {} |-> Undefined]

\* p[key] = value on an object
Put(p, key, value) == [k \in DOMAIN p \cup {key} |-> IF k = key THEN value ELSE p[k]]

\* the result key a date property is copied to (line 80)
DateKey(prop) == IF prop = "period" THEN "statsPeriod" ELSE prop

\* lines 60-64: the filter the result starts from
FilterOf(params) ==
  IF Truthy(params.itemIds) THEN Put(EmptyObject, "id", params.itemIds)
  ELSE IF Truthy(params.query) THEN Put(EmptyObject, "query", params.query)
  ELSE EmptyObject

\* lines 66-69
WithEnvironment(p, params) ==
  IF Truthy(params.query) /\ ~isNil(params.environment)
    THEN Put(p, "environment", params.environment)
    ELSE p

\* lines 71-74
WithProject(p, params) ==
  IF Truthy(params.project) /\ Len(params.project.v) # 0
    THEN Put(p, "project", params.project)
    ELSE p

\* line 79, were the test written as a truthiness test
DateIncludedIfTruthy(params, prop) == Truthy(params[prop])

\* line 79: a date property is copied when it is neither null nor undefined
DateIncluded(params, prop) == ~isNil(params[prop])

\* lines 76-83: forEach over the four date properties, in order
RECURSIVE WithDates(_, _, _)
WithDates(p, params, props) ==
  IF props = <<>> THEN p
  ELSE LET prop == Head(props)
           q == IF DateIncluded(params, prop)
                  THEN Put(p, DateKey(prop), params[prop])
                  ELSE p
       IN WithDates(q, params, Tail(props))

DateProps == <<"start", "end", "period", "utc">>

paramsToQueryArgs(params) ==
  LET p0 == FilterOf(params)
      p1 == WithEnvironment(p0, params)
      p2 == WithProject(p1, params)
  IN IF Truthy(params.query) THEN WithDates(p2, params, DateProps) ELSE p2

(***************************************************************************)
(* Parameter bags the translator is applied to.                            *)
(***************************************************************************)
ItemIdLists == {<<>>} \cup {<<i>> : i \in 1..MaxItemId}
                 \cup {<<i, j>> : i \in 1..MaxItemId, j \in 1..MaxItemId}
ItemIdsValues == {Undefined} \cup {Arr(a) : a \in ItemIdLists}
QueryValues == {Undefined, Str(""), Str("is:unresolved")}
EnvironmentValues == {Undefined, Null, Str("prod")}
ProjectValues == {Undefined, Null, Arr(<<>>), Arr(<<1>>)}
DateValues == {Undefined, Null, Str("")}
UtcValues == {Undefined, Null, Bool(FALSE), Bool(TRUE)}

ParamBags ==
  [itemIds : ItemIdsValues, query : QueryValues, environment : EnvironmentValues,
   project : ProjectValues, start : DateValues, end : {Undefined, Str("2019-06-01")},
   period : {Null, Str("14d")}, utc : UtcValues]

NoParams ==
  [itemIds |-> Undefined, query |-> Undefined, environment |-> Undefined,
   project |-> Undefined, start |-> Undefined, end |-> Undefined,
   period |-> Null, utc |-> Undefined]

NoResult == [k \in {"pending"} |-> Undefined]

(***************************************************************************)
(* The client: values that travel through callbacks.                       *)
(***************************************************************************)
SUDO_REQUIRED == "sudo-required"
SUPERUSER_REQUIRED == "superuser-required"
PROJECT_MOVED == "project-moved"

\* A response body (xhr.responseJSON): code is responseJSON.detail.code and
\* inner is responseJSON.responseJSON.detail.code, what get(data,
\* 'responseJSON.detail.code') reads when handed the payload itself.
Body(code, inner) == [code |-> code, inner |-> inner]
NoBody == Body("none", "none")

SuccessResponses ==
  {[ok |-> TRUE, body |-> b] :
     b \in {NoBody, Body(PROJECT_MOVED, "none"), Body("none", PROJECT_MOVED)}}
ErrorResponses ==
  {[ok |-> FALSE, body |-> Body(c, "none")] :
     c \in {"none", SUDO_REQUIRED, SUPERUSER_REQUIRED, PROJECT_MOVED}}
NoResponse == [ok |-> FALSE, body |-> NoBody]

Val(t, body, method, path, query, n) ==
  [t |-> t, body |-> body, method |-> method, path |-> path, query |-> query, n |-> n]
NoVal == Val("none", NoBody, "-", "-", "-", 0)
\* the payload `data` of a success response
ValPayload(resp) == Val("payload", resp.body, "-", "-", "-", 1)
\* [data, ...args] with n elements
ValList(data, n) == Val("list", data.body, "-", "-", "-", n)
\* the jqXHR of an error response
ValResponse(resp) == Val("response", resp.body, "-", "-", "-", 1)
\* what a throwing caller callback raises
ValException == Val("exception", NoBody, "-", "-", "-", 1)
\* what a collaborator is told about a request: method, path and query
ValRequest(method, path, query) == Val("request", NoBody, method, path, query, 1)

\* createRequestError(resp, stack, method, path): an error object carrying
\* the method and path it is given and the response it is built from
createRequestError(resp, method, path) ==
  Val("RequestError", resp.body, method, path, "-", 1)

(***************************************************************************)
(* Inputs of request() and requestPromise().                               *)
(***************************************************************************)
Paths == {"/issues/"}

\* An options bag.  method is "undefined" or a method; data is "undefined"
\* or a payload; query is "undefined", a serializable query or "circular",
\* one $.param cannot serialize; success is "undefined", "caller" (a
\* callback of the caller) or "callerThrows" (one that throws); error and
\* complete are "undefined" or "caller".
Bag(method, data, query, success, error, complete) ==
  [method |-> method, data |-> data, query |-> query,
   success |-> success, error |-> error, complete |-> complete]

\* the bags callers hand to request()
RequestBags ==
  { Bag("undefined", "undefined", "undefined", "caller", "caller", "caller"),
    Bag("PUT", "data", "q=1", "callerThrows", "caller", "caller"),
    Bag("undefined", "data", "q=1", "undefined", "undefined", "undefined") }

\* the bags callers hand to requestPromise(), each with its includeAllArgs
PromiseBags ==
  { <<Bag("undefined", "data", "undefined", "undefined", "undefined", "caller"), FALSE>>,
    <<Bag("PUT", "data", "q=1", "undefined", "undefined", "undefined"), TRUE>> }

\* a bag whose query cannot be serialized
CircularBags ==
  { Bag("undefined", "data", "circular", "caller", "caller", "caller") }

\* $.param(options.query || [], true) throws
ParamThrows(options) == options.query = "circular"

\* line 214: options.method || (options.data ? 'POST' : 'GET')
MethodOf(options) ==
  IF options.method # "undefined" THEN options.method
  ELSE IF options.data # "undefined" THEN "POST" ELSE "GET"

\* lines 215-219: the payload handed to the transport
DataOf(options) ==
  IF options.data # "undefined" /\ MethodOf(options) # "GET"
    THEN [json |-> TRUE, v |-> options.data]
    ELSE [json |-> FALSE, v |-> options.data]

(***************************************************************************)
(* Inputs of bulkDelete(), bulkUpdate() and merge().                       *)
(***************************************************************************)
\* the operations and the GroupActions each announces (lines 406-417,
\* 440-452, 473-485)
BulkOps == {"bulkDelete", "bulkUpdate", "merge"}
GroupAction(op, stage) ==
  CASE op = "bulkDelete" ->
         (CASE stage = "start" -> "GroupActions.delete"
            [] stage = "success" -> "GroupActions.deleteSuccess"
            [] OTHER -> "GroupActions.deleteError")
    [] op = "bulkUpdate" ->
         (CASE stage = "start" -> "GroupActions.update"
            [] stage = "success" -> "GroupActions.updateSuccess"
            [] OTHER -> "GroupActions.updateError")
    [] OTHER ->
         (CASE stage = "start" -> "GroupActions.merge"
            [] stage = "success" -> "GroupActions.mergeSuccess"
            [] OTHER -> "GroupActions.mergeError")
StartEvents == {GroupAction(op, "start") : op \in BulkOps}
SuccessEvents == {GroupAction(op, "success") : op \in BulkOps}
ErrorEvents == {GroupAction(op, "error") : op \in BulkOps}

\* what a GroupActions call is handed: params.itemIds and, for the success
\* and error events, the first argument of the callback
ValEvent(itemIds, arg) == [t |-> "event", itemIds |-> itemIds, arg |-> arg]

\* a parameter bag of a bulk operation: ParamsType & {orgId, projectId}
BulkParams(itemIds, query, projectId) ==
  [k \in DOMAIN NoParams \cup {"orgId", "projectId"} |->
     CASE k = "itemIds" -> itemIds
       [] k = "query" -> query
       [] k = "orgId" -> Str("1")
       [] k = "projectId" -> projectId
       [] OTHER -> NoParams[k]]

\* lines 399-401, 433-435, 466-468
BulkPath(bulkParams) ==
  IF Truthy(bulkParams.projectId)
    THEN "/projects/1/2/issues/" ELSE "/organizations/1/issues/"

\* encodeURIComponent on the query strings of the bags below
Encode(s) == IF s = "is:unresolved" THEN "is%3Aunresolved" ELSE s

\* line 232: $.param(query, true) of the ids of a result of
\* paramsToQueryArgs, one id=<n> for each element
RECURSIVE ParamIds(_)
ParamIds(ids) ==
  IF ids = <<>> THEN ""
  ELSE "id=" \o ToString(Head(ids))
         \o (IF Tail(ids) = <<>> THEN "" ELSE "&" \o ParamIds(Tail(ids)))

\* line 232: $.param(query, true) of a result of paramsToQueryArgs that
\* holds id or query or neither; the empty serialization adds nothing to the
\* url (line 251), as no query does
Param(q) ==
  IF "id" \in DOMAIN q /\ q["id"].v # <<>> THEN ParamIds(q["id"].v)
  ELSE IF "query" \in DOMAIN q THEN "query=" \o Encode(q["query"].v)
  ELSE "undefined"

\* the callbacks a caller hands to a bulk operation: RequestCallbacks
Callbacks(success, error, complete) ==
  [success |-> success, error |-> error, complete |-> complete]

\* lines 370-381, 388-390: _chain(options.f, extraParams.f), the
\* announcement of the operation first, the caller's callback after it;
\* a chain of no function is a function that does nothing
Chain(own, extra) ==
  CASE own = "undefined" /\ extra = "undefined" -> "chain"
    [] own = "undefined" -> extra
    [] extra = "undefined" -> own
    [] OTHER -> own \o "+" \o extra
Announcing == {"announce", "announce+caller", "announce+callerThrows"}
Throwing == {"callerThrows", "announce+callerThrows"}

\* the payload of each operation (lines 447, 480)
BulkData(op) ==
  CASE op = "bulkUpdate" -> "data" [] op = "merge" -> "merge" [] OTHER -> "undefined"

\* lines 408-421, 442-456, 475-489 with 383-392: the options handed to
\* request()
BulkOptions(op, bulkParams, callbacks) ==
  Bag(IF op = "bulkDelete" THEN "DELETE" ELSE "PUT",
      BulkData(op),
      Param(paramsToQueryArgs(bulkParams)),
      Chain("announce", callbacks.success),
      Chain("announce", callbacks.error),
      Chain("undefined", callbacks.complete))

\* the calls of the bulk operations: operation, parameters, callbacks
BulkCalls ==
  { << "bulkDelete", BulkParams(Arr(<<1, 2>>), Undefined, Undefined),
       Callbacks("caller", "caller", "caller") >>,
    << "bulkUpdate", BulkParams(Arr(<<1>>), Undefined, Str("2")),
       Callbacks("callerThrows", "caller", "undefined") >>,
    << "merge", BulkParams(Undefined, Str("is:unresolved"), Undefined),
       Callbacks("undefined", "undefined", "undefined") >> }

(***************************************************************************)
(* State.                                                                  *)
(***************************************************************************)
VARIABLES
  req,             \* per id: the arguments request() was called with
  activeRequests,  \* Client.activeRequests: the ids that are keys of it
  alive,           \* per id: Request.alive of the handle
  xhr,             \* per id: what the transport has delivered so far
  modal,           \* per id: the sudo modal its error response opened
  promise,         \* per id: the promise requestPromise() returned
  job,             \* the settled promise whose reactions have not run yet
  log,             \* per id: the collaborators called by the handlers of
                   \* request id, and the callbacks of the caller of
                   \* request id that were run, in order
  host,            \* what request() calls that failed to serialize did
  params,          \* a parameter bag handed to paramsToQueryArgs
  result           \* what paramsToQueryArgs returned for it

clientVars == <<req, activeRequests, alive, xhr, modal, promise, job, log, host>>
vars == <<clientVars, params, result>>

Issued == 1..Len(req)
NoJob == [id |-> 0, sync |-> 0]
IsSudo(code) == code = SUDO_REQUIRED \/ code = SUPERUSER_REQUIRED

Entry(e, arg) == [e |-> e, arg |-> arg]
CallbackEvents == {"callback.success", "callback.error", "callback.complete"}

\* The part of the state the callbacks act on, threaded through a handler.
Now ==
  [activeRequests |-> activeRequests, modal |-> modal, promise |-> promise,
   job |-> job, log |-> log]

Commit(st) ==
  /\ activeRequests' = st.activeRequests
  /\ modal' = st.modal
  /\ promise' = st.promise
  /\ job' = st.job
  /\ log' = st.log

\* a collaborator called on behalf of request id
Emit(st, id, e) ==
  [st EXCEPT !.log[id] =
     Append(@, Entry(e, ValRequest(req[id].method, req[id].path, req[id].options.query)))]

\* a callback of the caller run with arg; the caller is the one of the
\* request the replays descend from
Run(st, id, cb, arg) ==
  [st EXCEPT !.log[req[id].root] = Append(@, Entry(cb, arg))]

\* resolve()/reject() of the promise of request id; a settled promise stays
\* as it is.  The reactions retryRequest attached run as a later microtask.
Settle(st, id, state, value) ==
  IF st.promise[id].state # "pending" THEN st
  ELSE [st EXCEPT !.promise[id] = [state |-> state, value |-> value],
                  !.job = IF req[id].kind = "retryRequest"
                            THEN [id |-> id, sync |-> @.sync] ELSE @]

\* lines 350-352: includeAllArgs ? resolve([data, ...args]) : resolve(data)
\* nargs is the number of arguments that follow data
ResolveValue(id, data, nargs) ==
  IF req[id].includeAllArgs THEN ValList(data, 1 + nargs) ELSE data

\* lines 354-359: createRequestError(resp, stack, options.method, path)
RejectValue(id, resp) ==
  createRequestError(resp, req[id].options.method, req[id].path)

\* a GroupActions call made by the callbacks of bulk operation id
\* (lines 413-418, 448-453, 481-486)
Announce(st, id, stage, arg) ==
  [st EXCEPT !.log[req[id].root] =
     Append(@, Entry(GroupAction(req[req[id].root].kind, stage),
                     ValEvent(req[req[id].root].itemIds, arg)))]

\* options.success(data, ...args) of request id
InvokeSuccess(st, id, data, nargs) ==
  CASE req[id].options.success \in {"undefined", "chain"} -> st
    [] req[id].options.success = "resolve" ->
         Settle(st, id, "resolved", ResolveValue(id, data, nargs))
    [] req[id].options.success = "announce" -> Announce(st, id, "success", data)
    [] req[id].options.success \in Announcing ->
         Run(Announce(st, id, "success", data), id, "callback.success", data)
    [] OTHER -> Run(st, id, "callback.success", data)

\* options.error(resp) of request id
InvokeError(st, id, resp) ==
  CASE req[id].options.error \in {"undefined", "chain"} -> st
    [] req[id].options.error = "reject" ->
         Settle(st, id, "rejected", RejectValue(id, resp))
    [] req[id].options.error = "announce" -> Announce(st, id, "error", resp)
    [] req[id].options.error \in Announcing ->
         Run(Announce(st, id, "error", resp), id, "callback.error", resp)
    [] OTHER -> Run(st, id, "callback.error", resp)

\* options.complete(jqXHR, textStatus) of request id
InvokeComplete(st, id) ==
  IF req[id].options.complete \in {"undefined", "chain"} THEN st
  ELSE Run(st, id, "callback.complete", NoVal)

Invoke(st, id, func, arg) ==
  CASE func = "success" -> InvokeSuccess(st, id, arg, 2)
    [] func = "error" -> InvokeError(st, id, arg)
    [] OTHER -> InvokeComplete(st, id)

(***************************************************************************)
(* Client.hasProjectBeenRenamed, wrapCallback, handleRequestError.         *)
(***************************************************************************)
\* lines 121-134: code is get(response, 'responseJSON.detail.code') of the
\* first argument the wrapped callback was called with
hasProjectBeenRenamed(code) == code = PROJECT_MOVED

\* lines 138 and 143: req && req.alive
HandleUsable(st, id) == id \in st.activeRequests /\ alive[id]

\* lines 139-141, were the registry emptied by a completion
CleanupEveryEntry(st, id, cleanup) ==
  IF cleanup THEN [st EXCEPT !.activeRequests = {}] ELSE st

\* lines 139-143, were the entry deleted only for a handle that is alive
CleanupIfAlive(st, id, cleanup) ==
  IF cleanup /\ alive[id] THEN [st EXCEPT !.activeRequests = @ \ {id}] ELSE st

\* lines 139-141, were the registry entry kept
CleanupKeepingEntry(st, id, cleanup) == st

\* lines 139-141: delete this.activeRequests[id]
Cleanup(st, id, cleanup) ==
  IF cleanup THEN [st EXCEPT !.activeRequests = @ \ {id}] ELSE st

\* lines 136-159: the function wrapCallback(id, func, cleanup) returns,
\* called with arg as its first argument; code is what
\* hasProjectBeenRenamed reads from that argument
wrapCallback(st, id, func, cleanup, code, arg) ==
  LET st1 == Cleanup(st, id, cleanup)
  IN IF HandleUsable(st, id)
       THEN IF hasProjectBeenRenamed(code)
              THEN Emit(st1, id, "redirectToProject")
              ELSE IF req[id].options[func] = "undefined"
                     THEN st1
                     ELSE Invoke(st1, id, func, arg)
       ELSE st1

\* lines 174-203: openSudo({...}); return
SudoBranch(st, id, resp) ==
  Emit([st EXCEPT !.modal[id] = [state |-> "open", resp |-> resp]], id, "openSudo")

\* lines 170-211
handleRequestError(st, id, resp) ==
  IF IsSudo(resp.body.code)
    THEN SudoBranch(st, id, resp)
    ELSE wrapCallback(st, id, "error", FALSE, resp.body.code, ValResponse(resp))

(***************************************************************************)
(* Client.request and Client.requestPromise.                               *)
(***************************************************************************)
NewRequest(kind, parent, root, path, options, includeAllArgs) ==
  [kind |-> kind, parent |-> parent, root |-> root, path |-> path,
   options |-> options, method |-> MethodOf(options), data |-> DataOf(options),
   includeAllArgs |-> includeAllArgs, itemIds |-> Undefined]

\* lines 221-328: the span, the id, the start mark, the transport call and
\* the handle entered in the registry
IssueAfter(before, r, modals) ==
  LET id == Len(req) + 1
      about == ValRequest(r.method, r.path, r.options.query)
  IN /\ req' = Append(req, r)
     /\ activeRequests' = activeRequests \cup {id}
     /\ alive' = Append(alive, TRUE)
     /\ xhr' = Append(xhr, [phase |-> "pending", resp |-> NoResponse])
     /\ modal' = Append(modals, [state |-> "none", resp |-> NoResponse])
     /\ promise' = Append(promise,
                     [state |-> IF r.kind = "request" THEN "none" ELSE "pending",
                      value |-> NoVal])
     /\ log' = Append(log, before \o << Entry("startSpan", about),
                                         Entry("mark", about),
                                         Entry("ajax", about) >>)

\* request() called with nothing done on its behalf before
Issue(r, modals) == IssueAfter(<<>>, r, modals)

\* lines 347-366: the options requestPromise hands to request()
PromiseOptions(options) ==
  [options EXCEPT !.success = "resolve", !.error = "reject"]

\* request(path, options) by a caller, the query serializable
Request(path, options) ==
  /\ job = NoJob
  /\ Len(req) < MaxRequests
  /\ ~ParamThrows(options)
  /\ Issue(NewRequest("request", 0, Len(req) + 1, path, options, FALSE), modal)
  /\ UNCHANGED <<job, host, params, result>>

\* requestPromise(path, {includeAllArgs, ...options}) by a caller
RequestPromise(path, options, includeAllArgs) ==
  /\ job = NoJob
  /\ Len(req) < MaxRequests
  /\ ~ParamThrows(options)
  /\ Issue(NewRequest("requestPromise", 0, Len(req) + 1, path,
                      PromiseOptions(options), includeAllArgs), modal)
  /\ UNCHANGED <<job, host, params, result>>

\* lines 395-422, 424-457, 459-490: the start of the operation is
\* announced, then _wrapRequest chains the callbacks and calls request()
Bulk(op, bulkParams, callbacks) ==
  /\ job = NoJob
  /\ Len(req) < MaxRequests
  /\ IssueAfter(<< Entry(GroupAction(op, "start"),
                         ValEvent(bulkParams.itemIds, NoVal)) >>,
                [NewRequest(op, 0, Len(req) + 1, BulkPath(bulkParams),
                            BulkOptions(op, bulkParams, callbacks), FALSE)
                   EXCEPT !.itemIds = bulkParams.itemIds],
                modal)
  /\ UNCHANGED <<job, host, params, result>>

\* lines 230-243, were the start mark made before the query is serialized
SerializationFailureAfterMark(path, options) ==
  << Entry("startSpan", ValRequest(MethodOf(options), path, options.query)),
     Entry("mark", ValRequest(MethodOf(options), path, options.query)),
     Entry("captureException", ValRequest(MethodOf(options), path, options.query)) >>

\* lines 230-240, were the failure swallowed after the report
SerializationFailureSwallowed(path, options) ==
  << Entry("startSpan", ValRequest(MethodOf(options), path, options.query)),
     Entry("captureException", ValRequest(MethodOf(options), path, options.query)) >>

\* lines 221-240 when $.param throws: the span, the report with the path
\* and the query as extras, then the throw to the caller
SerializationFailure(path, options) ==
  << Entry("startSpan", ValRequest(MethodOf(options), path, options.query)),
     Entry("captureException", ValRequest(MethodOf(options), path, options.query)),
     Entry("throw", ValRequest(MethodOf(options), path, options.query)) >>

\* request(path, options) by a caller, the query not serializable
RequestThrows(path, options) ==
  /\ job = NoJob
  /\ Len(host) < 3 * MaxThrows
  /\ ParamThrows(options)
  /\ host' = host \o SerializationFailure(path, options)
  /\ UNCHANGED <<req, activeRequests, alive, xhr, modal, promise, job, log,
                 params, result>>

(***************************************************************************)
(* The handlers request() registers with the transport (lines 270-324).    *)
(***************************************************************************)
\* a promise settled inside the handler of request id: complete may follow
\* in the same task, before the promise's reactions run
Sync(st, id) ==
  IF st.job.id # 0 THEN [st EXCEPT !.job.sync = id] ELSE st

\* lines 270-281: success(data, textStatus, xhr)
TransportSuccess(id, resp) ==
  /\ job = NoJob
  /\ xhr[id].phase = "pending"
  /\ LET st0 == Emit(Now, id, "measure-success")
         st1 == IF req[id].options.success # "undefined"
                  THEN wrapCallback(st0, id, "success", FALSE, resp.body.inner,
                                    ValPayload(resp))
                  ELSE st0
     IN Commit(Sync(st1, id))
  /\ xhr' = [xhr EXCEPT ![id] = [phase |-> "responded", resp |-> resp]]
  /\ UNCHANGED <<req, alive, host, params, result>>

\* lines 283-308, were a response for a cancelled handle not reported
ReportErrorIfAlive(st, id) ==
  IF alive[id] THEN Emit(Emit(st, id, "measure-error"), id, "captureException")
  ELSE Emit(st, id, "measure-error")

\* lines 283-308: metric.measure, then Sentry.captureException of the
\* request error built from the response
ReportError(st, id) ==
  Emit(Emit(st, id, "measure-error"), id, "captureException")

\* lines 282-320: error(resp, textStatus, errorThrown)
TransportError(id, resp) ==
  /\ job = NoJob
  /\ xhr[id].phase = "pending"
  /\ LET st0 == ReportError(Now, id)
     IN Commit(Sync(handleRequestError(st0, id, resp), id))
  /\ xhr' = [xhr EXCEPT ![id] = [phase |-> "responded", resp |-> resp]]
  /\ UNCHANGED <<req, alive, host, params, result>>

\* lines 321-324: complete(jqXHR, textStatus)
TransportComplete(id) ==
  /\ job = NoJob \/ job.sync = id
  /\ xhr[id].phase = "responded"
  /\ LET st0 == Emit(Now, id, "finishSpan")
         st1 == wrapCallback(st0, id, "complete", TRUE, xhr[id].resp.body.code, NoVal)
     IN Commit([st1 EXCEPT !.job.sync = 0])
  /\ xhr' = [xhr EXCEPT ![id] = [phase |-> "done", resp |-> NoResponse]]
  /\ UNCHANGED <<req, alive, host, params, result>>

(***************************************************************************)
(* The reactions retryRequest attaches to the replay's promise              *)
(* (lines 178-193): .then(success).catch(error).                           *)
(***************************************************************************)
\* lines 180-186, then lines 187-192 when the success callback throws
ThenReaction(st, parent, value) ==
  IF req[parent].options.success = "undefined" THEN st
  ELSE LET st1 == InvokeSuccess(st, parent, value, 0)
       IN IF req[parent].options.success \in Throwing
            THEN InvokeError(st1, parent, ValException)
            ELSE st1

\* lines 187-192
CatchReaction(st, parent, reason) == InvokeError(st, parent, reason)

RunJob ==
  /\ job.id # 0
  /\ LET id == job.id
         st0 == [Now EXCEPT !.job = NoJob]
     IN Commit(IF promise[id].state = "resolved"
                 THEN ThenReaction(st0, req[id].parent, promise[id].value)
                 ELSE CatchReaction(st0, req[id].parent, promise[id].value))
  /\ UNCHANGED <<req, alive, xhr, host, params, result>>

(***************************************************************************)
(* The sudo modal calls back (lines 178-200).                              *)
(***************************************************************************)
\* retryRequest: requestPromise(path, requestOptions), were the payload dropped
ReplayOptionsDroppingData(id) ==
  PromiseOptions([req[id].options EXCEPT !.data = "undefined"])

\* retryRequest: requestPromise(path, requestOptions)
ReplayOptions(id) == PromiseOptions(req[id].options)

\* retryRequest()
SudoRetry(id) ==
  /\ job = NoJob
  /\ modal[id].state = "open"
  /\ Len(req) < MaxRequests
  /\ Issue(NewRequest("retryRequest", id, req[id].root, req[id].path,
                      ReplayOptions(id), FALSE),
           [modal EXCEPT ![id] = [state |-> "retried", resp |-> NoResponse]])
  /\ UNCHANGED <<job, host, params, result>>

\* onClose(): requestOptions.error(response)
SudoClose(id) ==
  /\ job = NoJob
  /\ modal[id].state = "open"
  /\ LET st0 == Emit([Now EXCEPT !.modal[id] = [state |-> "closed", resp |-> NoResponse]],
                     id, "onClose")
     IN Commit(InvokeError(st0, id, ValResponse(modal[id].resp)))
  /\ UNCHANGED <<req, alive, xhr, host, params, result>>

(***************************************************************************)
(* Request.cancel and Client.clear.  A cancel() of a handle that is no     *)
(* longer alive repeats the abort and its metric and changes nothing else; *)
(* the log records the abort that made the handle not alive.               *)
(***************************************************************************)
\* lines 25-29, were the abort not passed on to the transport
CancelAllWithoutAbort(ids) ==
  /\ alive' = [id \in DOMAIN alive |-> IF id \in ids THEN FALSE ELSE alive[id]]
  /\ log' = log

\* lines 25-29, on each handle of ids
CancelAll(ids) ==
  /\ alive' = [id \in DOMAIN alive |-> IF id \in ids THEN FALSE ELSE alive[id]]
  /\ log' = [id \in DOMAIN log |->
               IF id \in ids /\ alive[id]
                 THEN log[id] \o << Entry("abort", NoVal), Entry("metric-abort", NoVal) >>
                 ELSE log[id]]

\* the calls that return the handle to their caller (lines 328, 392, 408,
\* 442, 475); requestPromise() and retryRequest keep it to themselves
HandleReturned == {"request"} \cup BulkOps

\* cancel() by the caller, who holds the handle the call returned
Cancel(id) ==
  /\ job = NoJob
  /\ req[id].kind \in HandleReturned
  /\ alive[id]
  /\ CancelAll({id})
  /\ UNCHANGED <<req, activeRequests, xhr, modal, promise, job, host, params, result>>

\* line 165, were every handle ever issued cancelled
ClearTargetsAllIssued == Issued

\* line 165: for (const id in this.activeRequests)
ClearTargets == activeRequests

\* lines 164-168
clear ==
  /\ job = NoJob
  /\ \E id \in ClearTargets : alive[id]
  /\ CancelAll(ClearTargets)
  /\ UNCHANGED <<req, activeRequests, xhr, modal, promise, job, host, params, result>>

(***************************************************************************)
(* The query translator applied to a bag.                                  *)
(***************************************************************************)
Translate ==
  /\ result = NoResult
  /\ result' = paramsToQueryArgs(params)
  /\ UNCHANGED <<clientVars, params>>

(***************************************************************************)
(* Specifications.                                                         *)
(***************************************************************************)
InitClient ==
  /\ req = <<>>
  /\ activeRequests = {}
  /\ alive = <<>>
  /\ xhr = <<>>
  /\ modal = <<>>
  /\ promise = <<>>
  /\ job = NoJob
  /\ log = <<>>
  /\ host = <<>>

Init ==
  /\ InitClient
  /\ params = NoParams
  /\ result = NoResult

Next ==
  \/ \E path \in Paths, options \in RequestBags : Request(path, options)
  \/ \E path \in Paths, bag \in PromiseBags : RequestPromise(path, bag[1], bag[2])
  \/ \E path \in Paths, options \in CircularBags : RequestThrows(path, options)
  \/ \E id \in Issued, resp \in SuccessResponses : TransportSuccess(id, resp)
  \/ \E id \in Issued, resp \in ErrorResponses : TransportError(id, resp)
  \/ \E id \in Issued : TransportComplete(id)
  \/ RunJob
  \/ \E id \in Issued : SudoRetry(id)
  \/ \E id \in Issued : SudoClose(id)
  \/ \E id \in Issued : Cancel(id)
  \/ clear

Spec == Init /\ [][Next]_vars

InitQuery ==
  /\ InitClient
  /\ params \in ParamBags
  /\ result = NoResult

NextQuery == Translate

SpecQuery == InitQuery /\ [][NextQuery]_vars

\* The transport delivers a response and then the completion for every
\* call of $.ajax, and the reactions of a settled promise run.
Delivers(id) ==
  /\ id \in Issued
  /\ \/ \E resp \in SuccessResponses : TransportSuccess(id, resp)
     \/ \E resp \in ErrorResponses : TransportError(id, resp)

Completes(id) == id \in Issued /\ TransportComplete(id)

Fairness ==
  /\ WF_vars(RunJob)
  /\ \A id \in 1..MaxRequests :
       WF_vars(Delivers(id)) /\ WF_vars(Completes(id))

\* The client used through request() with serializable queries, under
\* that fairness.
NextFair ==
  \/ \E path \in Paths, options \in RequestBags : Request(path, options)
  \/ \E id \in Issued, resp \in SuccessResponses : TransportSuccess(id, resp)
  \/ \E id \in Issued, resp \in ErrorResponses : TransportError(id, resp)
  \/ \E id \in Issued : TransportComplete(id)
  \/ RunJob
  \/ \E id \in Issued : SudoRetry(id)
  \/ \E id \in Issued : SudoClose(id)
  \/ \E id \in Issued : Cancel(id)
  \/ clear

SpecFair == Init /\ [][NextFair]_vars /\ Fairness

\* The client used through its bulk operations only.
NextBulk ==
  \/ \E call \in BulkCalls : Bulk(call[1], call[2], call[3])
  \/ \E id \in Issued, resp \in SuccessResponses : TransportSuccess(id, resp)
  \/ \E id \in Issued, resp \in ErrorResponses : TransportError(id, resp)
  \/ \E id \in Issued : TransportComplete(id)
  \/ RunJob
  \/ \E id \in Issued : SudoRetry(id)
  \/ \E id \in Issued : SudoClose(id)
  \/ \E id \in Issued : Cancel(id)
  \/ clear

SpecBulk == Init /\ [][NextBulk]_vars

(***************************************************************************)
(* Reading the logs.                                                       *)
(***************************************************************************)
Positions(id, e) == {i \in 1..Len(log[id]) : log[id][i].e = e}
Happened(id, e) == Positions(id, e) # {}
\* the handles only clear() can cancel: the caller never holds them
OnlyClearReaches(id) == req[id].kind \notin HandleReturned
\* requests a caller made with request()
CallerRequests == {id \in Issued : req[id].kind = "request"}
\* cancel() ran on the handle before the transport delivered anything
CancelledInFlight(id, i) ==
  /\ log[id][i].e = "abort"
  /\ \A k \in 1..(i - 1) :
       log[id][k].e \notin {"measure-success", "measure-error", "finishSpan"}

(***************************************************************************)
(* C1.  A request cancelled before the transport delivered anything for it *)
(* runs none of the caller's success, error or complete callbacks          *)
(* afterwards, whatever the transport still delivers.  The code keeps this for a       *)
(* success and for an ordinary error; an error carrying the sudo-required  *)
(* or superuser-required code opens the modal without a look at the        *)
(* handle, and the modal's callbacks call the caller's unwrapped.          *)
(***************************************************************************)
C1_NoCallbackAfterCancel ==
  \A id \in CallerRequests :
    \A i \in 1..Len(log[id]) :
      CancelledInFlight(id, i) =>
        \A j \in (i + 1)..Len(log[id]) : log[id][j].e \notin CallbackEvents

(***************************************************************************)
(* C2.  For a request() that is never cancelled (and never redirected for  *)
(* a renamed project): success or error runs at most once, not both;       *)
(* complete runs at most once, and only after that success or error.  The sudo branch breaks it: complete runs when the    *)
(* original attempt completes, before any success or error, and again      *)
(* when the replay completes.                                              *)
(***************************************************************************)
C2_OneOutcomeThenComplete ==
  \A id \in CallerRequests :
    (alive[id] /\ ~Happened(id, "redirectToProject")) =>
      /\ Cardinality(Positions(id, "callback.success") \cup Positions(id, "callback.error")) <= 1
      /\ Cardinality(Positions(id, "callback.complete")) <= 1
      /\ \A i \in Positions(id, "callback.complete") :
           \E k \in 1..(i - 1) : log[id][k].e \in {"callback.success", "callback.error"}

(***************************************************************************)
(* C3.  As claimed: an id is a key of activeRequests exactly when its      *)
(* request was issued and has neither completed nor been cancelled.        *)
(***************************************************************************)
C3_RegistryAsClaimed ==
  \A id \in Issued :
    id \in activeRequests <=> (xhr[id].phase # "done" /\ alive[id])

(***************************************************************************)
(* C3, amended.  An id is a key of activeRequests exactly when its request *)
(* was issued and its completion wrapper has not run; cancel() removes     *)
(* nothing, a cancelled request stays registered until its completion.     *)
(***************************************************************************)
C3_Registry ==
  activeRequests = {id \in Issued : xhr[id].phase # "done"}

C3_Witness ==
  /\ \E id \in Issued : ~alive[id] /\ id \in activeRequests
  /\ \E id \in Issued : xhr[id].phase = "done" /\ id \notin activeRequests

(***************************************************************************)
(* C4.  An error response carrying the sudo-required or superuser-required *)
(* code opens the modal, and the caller's error callback is not run with   *)
(* that response unless the modal was closed just before; a confirmed      *)
(* modal issues a new request with the path, method, payload and query of  *)
(* the request that failed.                                                *)
(***************************************************************************)
C4_SudoReplay ==
  /\ \A id \in Issued :
       (xhr[id].phase = "responded" /\ ~xhr[id].resp.ok /\ IsSudo(xhr[id].resp.body.code))
         => (modal[id].state # "none" /\ Happened(id, "openSudo"))
  /\ \A id \in CallerRequests :
       \A i \in Positions(id, "callback.error") :
         (log[id][i].arg.t = "response" /\ IsSudo(log[id][i].arg.body.code))
           => (i > 1 /\ log[id][i - 1].e = "onClose")
  /\ \A id \in Issued :
       modal[id].state = "retried" => \E r \in Issued : req[r].parent = id
  /\ \A r \in Issued :
       req[r].kind = "retryRequest" =>
         /\ modal[req[r].parent].state = "retried"
         /\ req[r].path = req[req[r].parent].path
         /\ req[r].method = req[req[r].parent].method
         /\ req[r].data = req[req[r].parent].data
         /\ req[r].options.query = req[req[r].parent].options.query

C4_Witness ==
  \E r \in Issued :
    /\ req[r].kind = "retryRequest"
    /\ req[r].data.v # "undefined"
    /\ req[r].options.query # "undefined"
    /\ ~Happened(req[r].parent, "callback.error")

(***************************************************************************)
(* C5.  In the sudo branch of a caller's request: once the reactions of a  *)
(* replay's promise have run, a resolved replay has run the caller's       *)
(* success callback with its payload and a rejected one the caller's error *)
(* callback with its error; a closed modal has run the error callback with *)
(* the original response; and the error callback is run in no other way,   *)
(* so with nothing but that response or a replay's error.  The last part   *)
(* fails: .then(success).catch(error) also runs the error callback with    *)
(* what the success callback threw.                                        *)
(***************************************************************************)
C5_SudoForwarding ==
  \A id \in CallerRequests :
    /\ \A r \in Issued :
         (req[r].parent = id /\ job.id # r) =>
           /\ (promise[r].state = "resolved" /\ req[id].options.success # "undefined")
                => \E i \in Positions(id, "callback.success") : log[id][i].arg = promise[r].value
           /\ (promise[r].state = "rejected" /\ req[id].options.error # "undefined")
                => \E i \in Positions(id, "callback.error") : log[id][i].arg = promise[r].value
    /\ (modal[id].state = "closed" /\ req[id].options.error # "undefined")
         => \E i \in Positions(id, "callback.error") :
              /\ i > 1 /\ log[id][i - 1].e = "onClose"
              /\ log[id][i].arg.t = "response" /\ IsSudo(log[id][i].arg.body.code)
    /\ Happened(id, "openSudo") =>
         \A i \in Positions(id, "callback.error") :
           \/ log[id][i].arg.t = "response" /\ i > 1 /\ log[id][i - 1].e = "onClose"
           \/ log[id][i].arg.t = "RequestError"

(***************************************************************************)
(* C6.  A request whose success was delivered stays registered until its   *)
(* completion wrapper runs, which removes it; clear() cancels registered   *)
(* handles only, so a handle the caller cannot reach is never aborted      *)
(* after its completion.                                                   *)
(***************************************************************************)
C6_RemovedByComplete ==
  /\ \A id \in Issued :
       (xhr[id].phase = "responded" /\ xhr[id].resp.ok) => id \in activeRequests
  /\ \A id \in Issued : xhr[id].phase = "done" => id \notin activeRequests
  /\ \A id \in Issued :
       OnlyClearReaches(id) =>
         \A i \in Positions(id, "finishSpan") :
           \A j \in (i + 1)..Len(log[id]) : log[id][j].e # "abort"

C6_Witness ==
  \E id, other \in Issued :
    /\ OnlyClearReaches(id) /\ Happened(id, "measure-success")
    /\ xhr[id].phase = "done" /\ alive[id]
    /\ OnlyClearReaches(other) /\ Happened(other, "abort")

(***************************************************************************)
(* C7.  The promise of requestPromise() rejects with an error object that  *)
(* carries the method the request used and the path, and resolves with the *)
(* payload itself when includeAllArgs is not set.  The method fails: the   *)
(* error object is given options.method, which is undefined when request() *)
(* defaulted the method.                                                   *)
(***************************************************************************)
C7_PromiseOutcome ==
  \A id \in Issued :
    req[id].kind = "requestPromise" =>
      /\ promise[id].state = "rejected" =>
           /\ promise[id].value.t = "RequestError"
           /\ promise[id].value.method = req[id].method
           /\ promise[id].value.path = req[id].path
      /\ (promise[id].state = "resolved" /\ ~req[id].includeAllArgs) =>
           promise[id].value.t = "payload"

(***************************************************************************)
(* C8.  A request() whose query cannot be serialized reports once, with    *)
(* the path and the query, and then throws to its caller; it runs no error *)
(* callback.                                                               *)
(***************************************************************************)
C8_SerializationFailure ==
  /\ \A i \in 1..Len(host) :
       host[i].e = "captureException" =>
         /\ i < Len(host)
         /\ host[i + 1].e = "throw"
         /\ host[i + 1].arg.path = host[i].arg.path
         /\ host[i + 1].arg.query = host[i].arg.query
  /\ \A i \in 1..Len(host) :
       host[i].e = "throw" =>
         /\ i > 1 /\ host[i - 1].e = "captureException"
         /\ host[i].arg.query = "circular"
  /\ \A i \in 1..Len(host) : host[i].e \notin CallbackEvents
  /\ Len(host) > 0 => \E i \in 1..Len(host) : host[i].e = "throw"

C8_Witness ==
  \E i \in 1..Len(host) : host[i].e = "throw" /\ host[i].arg.path \in Paths

(***************************************************************************)
(* C9.  For a bag whose itemIds is a non-empty list, the result's id is    *)
(* itemIds and the result has none of start, end, statsPeriod, utc.  The   *)
(* code copies the date fields whenever params.query is set, also beside   *)
(* an id.                                                                  *)
(***************************************************************************)
DateKeys == {"start", "end", "statsPeriod", "utc"}
Translated == result # NoResult

C9_IdsExcludeDates ==
  (Translated /\ params.itemIds.t = "array" /\ params.itemIds.v # <<>>) =>
    /\ "id" \in DOMAIN result
    /\ result["id"] = params.itemIds
    /\ DOMAIN result \cap DateKeys = {}

(***************************************************************************)
(* C10.  As claimed: for a bag in which query is set (neither null nor     *)
(* undefined) and itemIds is not, the result holds query unchanged and     *)
(* each of start, end, statsPeriod, utc exactly when the input field is    *)
(* neither null nor undefined.                                             *)
(***************************************************************************)
QueryResult ==
  /\ "query" \in DOMAIN result
  /\ result["query"] = params.query
  /\ \A prop \in {"start", "end", "period", "utc"} :
       /\ DateKey(prop) \in DOMAIN result <=> ~isNil(params[prop])
       /\ DateKey(prop) \in DOMAIN result => result[DateKey(prop)] = params[prop]

C10_QueryAsClaimed ==
  (Translated /\ ~isNil(params.query) /\ isNil(params.itemIds)) => QueryResult

(***************************************************************************)
(* C10, amended.  For a bag in which query is a non-empty string and       *)
(* itemIds is not set, the result holds query unchanged and each of start, *)
(* end, statsPeriod, utc exactly when the input field is neither null nor  *)
(* undefined.  (An empty query string counts as no query.)                 *)
(***************************************************************************)
C10_Query ==
  (Translated /\ Truthy(params.query) /\ isNil(params.itemIds)) => QueryResult

C10_Witness ==
  /\ Translated /\ Truthy(params.query) /\ isNil(params.itemIds)
  /\ params.start = Str("") /\ "start" \in DOMAIN result
  /\ params.utc = Bool(FALSE) /\ "utc" \in DOMAIN result
  /\ isNil(params.end) /\ "end" \notin DOMAIN result

(***************************************************************************)
(* The bulk operations.                                                    *)
(***************************************************************************)
BulkRequests == {id \in Issued : req[id].kind \in BulkOps}
\* the handle of request id was alive when log entry k was written
AliveAt(id, k) == \A i \in 1..(k - 1) : log[id][i].e # "abort"

\* the start of the operation, with its item ids, is announced before the
\* transport is called
StartAnnouncedFirst(id) ==
  /\ log[id][1] = Entry(GroupAction(req[id].kind, "start"),
                        ValEvent(req[id].itemIds, NoVal))
  /\ \A k \in Positions(id, "ajax") : k > 1

\* a success delivered to a live handle announces the success event with
\* the response body (unless the response redirects), and every success
\* event is followed by the caller's success callback, if there is one
SuccessAnnounced(id) ==
  /\ \A k \in Positions(id, "measure-success") :
       AliveAt(id, k) =>
         /\ k < Len(log[id])
         /\ \/ log[id][k + 1].e = "redirectToProject"
            \/ /\ log[id][k + 1].e = GroupAction(req[id].kind, "success")
               /\ log[id][k + 1].arg.itemIds = req[id].itemIds
               /\ log[id][k + 1].arg.arg.t = "payload"
               /\ xhr[id].phase = "responded" =>
                    log[id][k + 1].arg.arg = ValPayload(xhr[id].resp)
  /\ \A k \in 1..Len(log[id]) :
       (log[id][k].e \in SuccessEvents /\ req[id].options.success # "announce") =>
         /\ k < Len(log[id])
         /\ log[id][k + 1] = Entry("callback.success", log[id][k].arg.arg)
  /\ \A k \in Positions(id, "callback.success") :
       k > 1 /\ log[id][k - 1].e \in SuccessEvents

\* an ordinary error delivered to a live handle announces the error event,
\* and every error event is followed by the caller's error callback, if
\* there is one
ErrorAnnounced(id) ==
  /\ \A k \in Positions(id, "measure-error") :
       (AliveAt(id, k) /\ xhr[id].phase = "responded"
          /\ ~IsSudo(xhr[id].resp.body.code)) =>
         /\ k + 1 < Len(log[id])
         /\ \/ log[id][k + 2].e = "redirectToProject"
            \/ log[id][k + 2] = Entry(GroupAction(req[id].kind, "error"),
                                      ValEvent(req[id].itemIds,
                                               ValResponse(xhr[id].resp)))
  /\ \A k \in 1..Len(log[id]) :
       (log[id][k].e \in ErrorEvents /\ req[id].options.error # "announce") =>
         /\ k < Len(log[id])
         /\ log[id][k + 1] = Entry("callback.error", log[id][k].arg.arg)
  /\ \A k \in Positions(id, "callback.error") :
       k > 1 /\ log[id][k - 1].e \in ErrorEvents

\* a success event and an error event are not both announced
OneOutcomeAnnounced(id) ==
  ~(\E i, j \in 1..Len(log[id]) :
      log[id][i].e \in SuccessEvents /\ log[id][j].e \in ErrorEvents)

C11_Start == \A id \in BulkRequests : StartAnnouncedFirst(id)
C11_Success == \A id \in BulkRequests : SuccessAnnounced(id)
C11_Error == \A id \in BulkRequests : ErrorAnnounced(id)

(***************************************************************************)
(* C11.  For bulkDelete, bulkUpdate and merge: the start event with the    *)
(* item ids is announced before the transport is called; a success of the  *)
(* live request announces the success event with the response body and     *)
(* then runs the caller's success callback; a failure announces the error  *)
(* event and runs the caller's error callback; a success event and an      *)
(* error event are never both announced for one operation.  The last part  *)
(* fails: after a confirmed sudo modal the replay's success runs the       *)
(* chained success callback inside .then(), and when the caller's callback *)
(* throws there, .catch() runs the chained error callback.                 *)
(***************************************************************************)
C11_BulkAnnouncements ==
  \A id \in BulkRequests :
    /\ StartAnnouncedFirst(id)
    /\ SuccessAnnounced(id)
    /\ ErrorAnnounced(id)
    /\ OneOutcomeAnnounced(id)

(***************************************************************************)
(* C12.  Every error response the transport delivers for a request is      *)
(* reported with captureException before the error callback runs, the      *)
(* promise is rejected or the sudo modal is opened for it, whether or not  *)
(* there is an error callback and whether or not the handle is alive.      *)
(***************************************************************************)
C12_ErrorsReportedFirst ==
  \A id \in Issued :
    /\ (xhr[id].phase = "responded" /\ ~xhr[id].resp.ok) =>
         Happened(id, "captureException")
    /\ \A k \in Positions(id, "measure-error") :
         k < Len(log[id]) /\ log[id][k + 1].e = "captureException"
    /\ \A j \in 1..Len(log[id]) :
         log[id][j].e \in {"callback.error", "openSudo", "onClose"} =>
           \E k \in 1..(j - 1) : log[id][k].e = "captureException"
    /\ promise[id].state = "rejected" => Happened(id, "captureException")

\* an error reported for a cancelled handle of a caller without callbacks
C12_Witness ==
  \E id \in Issued :
    /\ req[id].options.error = "undefined"
    /\ \E i \in Positions(id, "abort"), k \in Positions(id, "captureException") : i < k

(***************************************************************************)
(* C13.  When the response of a request whose handle is alive carries the  *)
(* PROJECT_MOVED code, redirectToProject is called and none of the         *)
(* caller's success, error and complete callbacks runs.  It holds for an   *)
(* error response.  A successful response is handed to the success wrapper *)
(* as its parsed body, in which hasProjectBeenRenamed finds no             *)
(* responseJSON: the success callback runs, and only the completion        *)
(* wrapper, handed the jqXHR, redirects.                                   *)
(***************************************************************************)
C13_RenameRedirects ==
  \A id \in Issued :
    /\ (/\ req[id].kind \in HandleReturned
        /\ xhr[id].phase = "responded"
        /\ xhr[id].resp.body.code = PROJECT_MOVED
        /\ ~Happened(id, "abort")) =>
         \A k \in 1..Len(log[id]) : log[id][k].e \notin CallbackEvents
    /\ (/\ req[id].kind \in HandleReturned
        /\ xhr[id].phase = "responded"
        /\ ~xhr[id].resp.ok
        /\ xhr[id].resp.body.code = PROJECT_MOVED
        /\ ~Happened(id, "abort")) => Happened(id, "redirectToProject")

(***************************************************************************)
(* C14.  clear() leaves every handle of the registry with alive = false,   *)
(* and no callback of the caller of a request it cancelled in flight runs  *)
(* later.  The requests taken here are those whose handles only clear()    *)
(* can reach.  The first part holds; the second fails through the  *)
(* sudo branch, which looks at no handle: a confirmed modal replays the    *)
(* request with the caller's complete callback.                            *)
(***************************************************************************)
C14_ClearCancelsAll ==
  [][ /\ clear => \A id \in activeRequests' : ~alive'[id]
      /\ \A id \in Issued :
           (OnlyClearReaches(id) /\ \E i \in 1..Len(log[id]) : CancelledInFlight(id, i)) =>
             \A k \in (Len(log[id]) + 1)..Len(log'[id]) :
               log'[id][k].e \notin CallbackEvents ]_vars

\* the part of C14 the code keeps
C14_ClearLeavesNoneAlive ==
  [][ clear => \A id \in activeRequests' : ~alive'[id] ]_vars

(***************************************************************************)
(* C15.  With a transport that delivers the completion of every call and   *)
(* promise reactions that run, every request in the registry is eventually *)
(* removed from it, whatever its outcome, and the registry ends empty.     *)
(***************************************************************************)
C15_EventuallyRemoved ==
  /\ \A id \in 1..MaxRequests :
       [](id \in activeRequests => <>(id \notin activeRequests))
  /\ <>[](activeRequests = {})

\* a cancelled request and one that failed, both removed
C15_Witness ==
  /\ activeRequests = {}
  /\ \E a, b \in Issued :
       /\ Happened(a, "abort") /\ xhr[a].phase = "done"
       /\ ~Happened(b, "abort") /\ Happened(b, "measure-error") /\ xhr[b].phase = "done"

(***************************************************************************)
(* C16.  Requests in flight together are independent: a cancel() of a      *)
(* handle, a response, a completion, a promise reaction or a modal         *)
(* callback of one request leaves alone the alive flag, the registry       *)
(* membership, the transport state, the modal, the promise and the         *)
(* callbacks run of every request that belongs to another call.  Two       *)
(* requests belong to the same call when one is a replay of the other.     *)
(***************************************************************************)
EventOf(id) ==
  \/ Cancel(id)
  \/ \E resp \in SuccessResponses : TransportSuccess(id, resp)
  \/ \E resp \in ErrorResponses : TransportError(id, resp)
  \/ TransportComplete(id)
  \/ (job.id = id /\ RunJob)
  \/ SudoRetry(id)
  \/ SudoClose(id)

Untouched(other) ==
  /\ alive'[other] = alive[other]
  /\ (other \in activeRequests') = (other \in activeRequests)
  /\ xhr'[other] = xhr[other]
  /\ modal'[other] = modal[other]
  /\ promise'[other] = promise[other]
  /\ log'[other] = log[other]
  /\ req'[other] = req[other]

C16_Independent ==
  [][ \A id \in Issued :
        EventOf(id) =>
          \A other \in Issued : req[other].root # req[id].root => Untouched(other) ]_vars

\* a request cancelled and still in flight, while the success callback of
\* another has run
C16_Witness ==
  \E a, b \in Issued :
    /\ req[a].root # req[b].root
    /\ Happened(a, "abort") /\ xhr[a].phase = "pending"
    /\ ~alive[a] /\ alive[b] /\ a \in activeRequests
    /\ Happened(b, "callback.success")

(***************************************************************************)
(* C17.  Over the original attempt and its replays together, the caller's  *)
(* success callback and error callback of one request() call each run at   *)
(* most once and never both (each sudo modal calls back once: it is        *)
(* retried or closed).  It fails when the success callback throws inside   *)
(* the replay's .then(): .catch() then runs the error callback.            *)
(***************************************************************************)
C17_OneOutcomeOverReplays ==
  \A id \in Issued :
    req[id].kind = "request" =>
      /\ Cardinality(Positions(id, "callback.success")) <= 1
      /\ Cardinality(Positions(id, "callback.error")) <= 1
      /\ ~(Happened(id, "callback.success") /\ Happened(id, "callback.error"))

\* C17 for the callers whose success callback does not throw
C17_OneOutcomeUnlessThrown ==
  \A id \in Issued :
    (req[id].kind = "request" /\ req[id].options.success \notin Throwing) =>
      /\ Cardinality(Positions(id, "callback.success")) <= 1
      /\ Cardinality(Positions(id, "callback.error")) <= 1
      /\ ~(Happened(id, "callback.success") /\ Happened(id, "callback.error"))

(***************************************************************************)
(* C18.  A requestPromise() whose request clear() cancelled before the     *)
(* transport delivered anything never settles its promise.  It fails       *)
(* through the sudo branch: the modal is opened for the cancelled request  *)
(* and closing it calls the reject callback unwrapped (confirming it       *)
(* settles the promise with the replay's outcome).                         *)
(***************************************************************************)
C18_CancelledPromisePending ==
  \A id \in Issued :
    (req[id].kind = "requestPromise"
       /\ \E i \in 1..Len(log[id]) : CancelledInFlight(id, i)) =>
      promise[id].state = "pending"

\* C18 for the responses that do not open the sudo modal
C18_PendingUnlessSudo ==
  \A id \in Issued :
    (req[id].kind = "requestPromise"
       /\ ~Happened(id, "openSudo")
       /\ \E i \in 1..Len(log[id]) : CancelledInFlight(id, i)) =>
      promise[id].state = "pending"

(***************************************************************************)
(* C19.  A request() whose query cannot be serialized leaves the client    *)
(* as it was: no handle enters the registry, the transport is not called   *)
(* and no start mark is made.  (The span started at line 222 and the       *)
(* report are all it does before it throws.)                               *)
(***************************************************************************)
C19_FailureLeavesClient ==
  [][ host' # host =>
        /\ UNCHANGED <<req, activeRequests, alive, xhr, modal, promise, job, log>>
        /\ \A k \in (Len(host) + 1)..Len(host') :
             host'[k].e \in {"startSpan", "captureException", "throw"} ]_vars

\* a failed call next to a request in flight
C19_Witness ==
  /\ \E k \in 1..Len(host) : host[k].e = "throw"
  /\ \E id \in activeRequests : xhr[id].phase = "pending"

(***************************************************************************)
(* C20.  cancel() and clear() change alive flags from true to false and    *)
(* nothing else of the client, pass the abort to the transport and emit    *)
(* its metric; no alive flag ever turns true again; the keys of the        *)
(* registry stay as they are, so a cancelled request stays registered      *)
(* until its completion wrapper runs.                                      *)
(***************************************************************************)
Cancels == clear \/ \E id \in Issued : Cancel(id)

C20_CancelFrame ==
  /\ [][ Cancels =>
           /\ UNCHANGED <<req, activeRequests, xhr, modal, promise, job, host>>
           /\ \A id \in Issued :
                /\ alive'[id] => alive[id]
                /\ (alive[id] /\ ~alive'[id]) =>
                     log'[id] = log[id] \o << Entry("abort", NoVal),
                                              Entry("metric-abort", NoVal) >>
                /\ alive'[id] => log'[id] = log[id] ]_vars
  /\ [][ \A id \in Issued : ~alive[id] => ~alive'[id] ]_vars
  /\ [](\A id \in Issued :
          (~alive[id] /\ xhr[id].phase # "done") => id \in activeRequests)

\* a cancelled request whose response came and that is still registered
C20_Witness ==
  \E id \in Issued :
    /\ ~alive[id] /\ Happened(id, "abort")
    /\ xhr[id].phase = "responded"
    /\ id \in activeRequests

=============================================================================
